---- MODULE Spec2Model ----
(***************************************************************************)
(* Wallet secret manager of src/app.py: the add-key / update-key /         *)
(* delete-key handlers and the listing they share, run by concurrent       *)
(* requests against the identity provider (Coder agent git-ssh-key         *)
(* endpoint) and the secret store (AWS Secrets Manager through boto3).     *)
(*                                                                         *)
(* Every external call of a handler is one step, so requests interleave    *)
(* between calls exactly where the synchronous handlers can.               *)
(***************************************************************************)
EXTENDS Integers, Sequences, FiniteSets, TLC

(***************************************************************************)
(* Bounds of the model.                                                    *)
(***************************************************************************)
MaxOps == 2
MaxInit == 1

(***************************************************************************)
(* Program constants.                                                      *)
(***************************************************************************)
DigestHexLen == 64
WalletIdLen == 32
TruncLen == 3

(* Two requests in flight; the key pair the identity provider holds and   *)
(* the one it may rotate to; the token a form submits.                     *)
Procs == {1, 2}
Keys == {1, 2}
Plains == {"glpat-abc123"}

(* TOKEN_TYPES, in the dict's insertion order (the order list iterates in). *)
TokenOrder == <<"gitlab_token", "jira_token", "claude_token", "confluence_token">>

TOKEN_TYPES ==
  [t \in {TokenOrder[i] : i \in 1..Len(TokenOrder)} |->
     CASE t = "gitlab_token" -> "gitlab"
       [] t = "jira_token" -> "jira"
       [] t = "claude_token" -> "claude"
       [] t = "confluence_token" -> "confluence"]

Prefixes == {TOKEN_TYPES[t] : t \in DOMAIN TOKEN_TYPES}

(* A token type and a prefix outside the registry, as a caller may send.   *)
UnknownType == "ssh_token"
ForeignPrefix == "other"

HexChars == <<"0", "1", "2", "3", "4", "5", "6", "7",
              "8", "9", "a", "b", "c", "d", "e", "f">>

(* hashlib.sha256(f"{GIT_COMMITTER_EMAIL}-{pub_ssh}").hexdigest(): the     *)
(* email is fixed for the process, so the digest is a function of the      *)
(* public key; distinct keys give distinct digests.                        *)
Sha256Hex(k) ==
  [i \in 1..DigestHexLen |-> HexChars[((k * 7 + i * (k + 2)) % 16) + 1]]

(* hexdigest()[:32], kept per key pair.                                    *)
WalletIdTable == [k \in Keys |-> SubSeq(Sha256Hex(k), 1, WalletIdLen)]

WalletIdOf(k) == WalletIdTable[k]

WalletIds == {WalletIdOf(k) : k \in Keys}

(* A secret name is a string; it is kept as its part before the first "-", *)
(* the WalletIdLen characters after it, and whatever follows those.        *)
(* f"{prefix}-{wallet_id}": prefixes hold no "-" and nothing follows the   *)
(* id.                                                                     *)
SecretName(prefix, wallet_id) == [prefix |-> prefix, wallet |-> wallet_id, rest |-> <<>>]

(* f"{prefix}-{wallet_id[:3]}..."                                          *)
Truncated(prefix, wallet_id) ==
  [prefix |-> prefix, head |-> SubSeq(wallet_id, 1, TruncLen), tail |-> "..."]

(* The X25519 public key converted from the Ed25519 key of identity k.     *)
Ed25519ToX25519(k) == [curve |-> "x25519", of |-> k]

(* iv || ephemeral public key || tag || ciphertext: what the blob is       *)
(* sealed to, under which fresh ephemeral key, and what it holds.          *)
EncryptPayload(plaintext, peer, eph) ==
  [plain |-> plaintext, to |-> peer, eph |-> eph]

NoBlob == [plain |-> "", to |-> [curve |-> "none", of |-> 0], eph |-> 0]

(***************************************************************************)
(* The secret store: AWS Secrets Manager as the code calls it.  An entry   *)
(* is live or scheduled for deletion ("deleted": describe reports          *)
(* DeletedDate); a name with no entry is missing.                          *)
(***************************************************************************)
StateOf(s, n) == IF n \in DOMAIN s THEN s[n].st ELSE "missing"

(* create_secret: ResourceExistsException for a live name,                 *)
(* InvalidRequestException for a name scheduled for deletion.              *)
SmCreateSecret(s, n, v) ==
  CASE StateOf(s, n) = "missing" ->
         [err |-> "none",
          store |-> [m \in DOMAIN s \cup {n} |->
                       IF m = n THEN [st |-> "live", val |-> v] ELSE s[m]]]
    [] StateOf(s, n) = "live" -> [err |-> "ResourceExists", store |-> s]
    [] OTHER -> [err |-> "InvalidRequest", store |-> s]

(* put_secret_value: ResourceNotFoundException for a missing name,         *)
(* InvalidRequestException for a name scheduled for deletion.              *)
SmPutSecretValue(s, n, v) ==
  CASE StateOf(s, n) = "live" ->
         [err |-> "none", store |-> [s EXCEPT ![n].val = v]]
    [] StateOf(s, n) = "missing" -> [err |-> "ResourceNotFound", store |-> s]
    [] OTHER -> [err |-> "InvalidRequest", store |-> s]

(* delete_secret: with ForceDeleteWithoutRecovery the entry is removed at  *)
(* once and a missing name is no error; without it the entry is scheduled  *)
(* for deletion.                                                           *)
SmDeleteSecret(s, n, force) ==
  IF force THEN [err |-> "none", store |-> [m \in DOMAIN s \ {n} |-> s[m]]]
  ELSE CASE StateOf(s, n) = "live" ->
              [err |-> "none", store |-> [s EXCEPT ![n].st = "deleted"]]
         [] StateOf(s, n) = "missing" -> [err |-> "ResourceNotFound", store |-> s]
         [] OTHER -> [err |-> "InvalidRequest", store |-> s]

(* describe_secret: ResourceNotFoundException, or the entry's state.       *)
SmDescribeSecret(s, n) ==
  IF StateOf(s, n) = "missing" THEN "ResourceNotFound"
  ELSE IF StateOf(s, n) = "deleted" THEN "DeletedDate" ELSE "Live"

VARIABLES
  store,    \* the secret store: name -> entry
  idKey,    \* the key pair the identity provider returns now
  nextEph,  \* ephemeral keys generated so far
  started,  \* requests received so far
  pc,       \* each request's position in its handler
  req,      \* each request's form fields
  loc,      \* each request's local variables
  result,   \* each request's outcome
  fetches,  \* identity-provider calls made by the request
  calls,    \* mutating store calls issued by the request
  muts,     \* steps of the request that changed the store
  quiet,    \* no other request or rotation changed store/identity since it started
  pre,      \* the state of the request's target entry when it started
  raced     \* the request was past the existence check together with another
            \* add-key for the same token type before either had written

vars == <<store, idKey, nextEph, started, pc, req, loc, result, fetches, calls, muts, quiet, pre, raced>>

NoName == SecretName("", <<>>)

InitLoc == [wallet_id |-> <<>>, idx |-> 0, found |-> <<>>,
            secret_name |-> NoName, blob |-> NoBlob]

NoReq == [kind |-> "none", token_type |-> "", secret_name |-> NoName, key |-> ""]

(* The token types and names requests are drawn from.                      *)
InputTypes == {"gitlab_token", UnknownType}

(* A submitted secret_name: the caller's own or another wallet's under a   *)
(* registered prefix, or one under a prefix outside the registry.          *)
InputNames ==
  {SecretName("gitlab", w) : w \in WalletIds}
    \cup {SecretName(ForeignPrefix, WalletIdOf(1))}

(* The names that may hold an entry before the first request: two of the   *)
(* first wallet's, one of the other's.                                     *)
InitNames ==
  {SecretName("gitlab", w) : w \in WalletIds}
    \cup {SecretName("jira", WalletIdOf(1))}

(* An entry stored before the model starts was sealed for its wallet.      *)
InitBlob(n) ==
  LET ks == {k \in Keys : WalletIdOf(k) = n.wallet}
  IN  EncryptPayload("earlier", Ed25519ToX25519(CHOOSE k \in ks : TRUE), 0)

InitStores ==
  LET small == {S \in SUBSET InitNames : Cardinality(S) <= MaxInit}
  IN  UNION {{[n \in S |-> [st |-> f[n], val |-> InitBlob(n)]] :
               f \in [S -> {"live", "deleted"}]} : S \in small}

Init ==
  /\ store \in InitStores
  /\ idKey = 1
  /\ nextEph = 0
  /\ started = 0
  /\ pc = [p \in Procs |-> "idle"]
  /\ req = [p \in Procs |-> NoReq]
  /\ loc = [p \in Procs |-> InitLoc]
  /\ result = [p \in Procs |-> "none"]
  /\ fetches = [p \in Procs |-> 0]
  /\ calls = [p \in Procs |-> 0]
  /\ muts = [p \in Procs |-> 0]
  /\ quiet = [p \in Procs |-> TRUE]
  /\ pre = [p \in Procs |-> "none"]
  /\ raced = [p \in Procs |-> FALSE]


(***************************************************************************)
(* Steps shared by the handlers.                                           *)
(***************************************************************************)
Starting(p) == pc[p] \in {"idle", "done"}

(* A request arrives: its locals and counters start afresh.                *)
Begin(p, r, at, res) ==
  /\ Starting(p)
  /\ started < MaxOps
  /\ started' = started + 1
  /\ req' = [req EXCEPT ![p] = r]
  /\ loc' = [loc EXCEPT ![p] = InitLoc]
  /\ pc' = [pc EXCEPT ![p] = at]
  /\ result' = [result EXCEPT ![p] = res]
  /\ fetches' = [fetches EXCEPT ![p] = 0]
  /\ calls' = [calls EXCEPT ![p] = 0]
  /\ UNCHANGED <<store, idKey, nextEph>>

(* The handler's return: the outcome is fixed, the response is rendered.   *)
(* GET /actions renders the listing itself and is done at once.            *)
Return(p, res) ==
  /\ result' = [result EXCEPT ![p] = res]
  /\ pc' = [pc EXCEPT ![p] = IF req[p].kind = "list" THEN "done" ELSE "respond"]

(* _fetch_git_ssh_key: one call to the identity provider.                  *)
Fetched(p) == fetches' = [fetches EXCEPT ![p] = @ + 1]

(* One mutating call issued to the store.                                  *)
Called(p) == calls' = [calls EXCEPT ![p] = @ + 1]

(***************************************************************************)
(* _list_wallet_secrets: the identity fetch, then one describe_secret per  *)
(* registry entry.  add_key continues from the last probe.                 *)
(***************************************************************************)
ListFetch(p) ==
  /\ pc[p] = "list_fetch"
  /\ Fetched(p)
  /\ \/ /\ loc' = [loc EXCEPT ![p].wallet_id = WalletIdOf(idKey),
                              ![p].idx = 1, ![p].found = <<>>]
        /\ pc' = [pc EXCEPT ![p] = "list_probe"]
        /\ UNCHANGED result
     \/ /\ Return(p, "UpstreamUnavailable")
        /\ UNCHANGED loc
  /\ UNCHANGED <<store, idKey, nextEph, started, req, calls>>

ListRecord(token_type, wallet_id) ==
  [secret_name |-> SecretName(TOKEN_TYPES[token_type], wallet_id),
   prefix |-> TOKEN_TYPES[token_type],
   truncated |-> Truncated(TOKEN_TYPES[token_type], wallet_id),
   token_type |-> token_type]

(* The loop body without the DeletedDate test.                             *)
ProbeIgnoringDeletedDate(s, found, token_type, wallet_id) ==
  IF SmDescribeSecret(s, SecretName(TOKEN_TYPES[token_type], wallet_id)) = "ResourceNotFound"
  THEN found
  ELSE Append(found, ListRecord(token_type, wallet_id))

(* What one pass of the loop leaves in found: nothing for                  *)
(* ResourceNotFoundException, nothing when DeletedDate is in the response. *)
Probe(s, found, token_type, wallet_id) ==
  LET resp == SmDescribeSecret(s, SecretName(TOKEN_TYPES[token_type], wallet_id))
  IN  IF resp = "ResourceNotFound" THEN found
      ELSE IF resp = "DeletedDate" THEN found
      ELSE Append(found, ListRecord(token_type, wallet_id))

(* The test with the record's prefix read where its token_type is meant.   *)
ExistingByPrefix(found, token_type) ==
  \E i \in 1..Len(found) : found[i].prefix = token_type

(* add_key's test of the listing it got.                                   *)
Existing(found, token_type) ==
  \E i \in 1..Len(found) : found[i].token_type = token_type

ListProbe(p) ==
  /\ pc[p] = "list_probe"
  /\ \/ LET found2 == Probe(store, loc[p].found, TokenOrder[loc[p].idx], loc[p].wallet_id)
        IN  /\ loc' = [loc EXCEPT ![p].found = found2, ![p].idx = @ + 1]
            /\ IF loc[p].idx < Len(TokenOrder)
               THEN UNCHANGED <<pc, result>>
               ELSE IF req[p].kind = "list"
               THEN Return(p, "ok")
               ELSE IF Existing(found2, req[p].token_type)
               THEN Return(p, "AlreadyExists")
               ELSE /\ pc' = [pc EXCEPT ![p] = "create_fetch"]
                    /\ UNCHANGED result
     \/ /\ Return(p, "UpstreamUnavailable")
        /\ loc' = [loc EXCEPT ![p].found = <<>>]
  /\ UNCHANGED <<store, idKey, nextEph, started, req, fetches, calls>>

(* add_key without its registry test.                                      *)
AddKeyUnchecked(p) ==
  \E t \in InputTypes, k \in Plains :
    Begin(p, [kind |-> "add", token_type |-> t, secret_name |-> NoName, key |-> k],
          "list_fetch", "none")

(***************************************************************************)
(* add_key and _create_wallet_secret / _store_secret.                      *)
(***************************************************************************)
AddKey(p) ==
  \E t \in InputTypes, k \in Plains :
    LET r == [kind |-> "add", token_type |-> t, secret_name |-> NoName, key |-> k]
    IN  IF t \notin DOMAIN TOKEN_TYPES
        THEN Begin(p, r, "respond", "UnknownTokenType")
        ELSE Begin(p, r, "list_fetch", "none")

(* The name made unique per call by the ephemeral key's number.            *)
NewSecretNameWithNonce(p) ==
  [prefix |-> TOKEN_TYPES[req[p].token_type], wallet |-> WalletIdOf(idKey),
   rest |-> <<nextEph + 1>>]

(* The name built from the token type where its prefix is meant.           *)
NewSecretNameByType(p) ==
  [prefix |-> req[p].token_type, wallet |-> WalletIdOf(idKey), rest |-> <<>>]

(* wallet_id and secret_name as _create_wallet_secret computes them from   *)
(* the key pair it fetched.                                                *)
NewSecretName(p) ==
  SecretName(TOKEN_TYPES[req[p].token_type], WalletIdOf(idKey))

CreateFetch(p) ==
  /\ pc[p] = "create_fetch"
  /\ Fetched(p)
  /\ \/ /\ nextEph' = nextEph + 1
        /\ loc' = [loc EXCEPT
             ![p].secret_name = NewSecretName(p),
             ![p].blob = EncryptPayload(req[p].key, Ed25519ToX25519(idKey), nextEph + 1)]
        /\ pc' = [pc EXCEPT ![p] = "create_store"]
        /\ UNCHANGED result
     \/ /\ Return(p, "UpstreamUnavailable")
        /\ UNCHANGED <<loc, nextEph>>
  /\ UNCHANGED <<store, idKey, started, req, calls>>

(* _store_secret passing over ResourceExistsException without the put.     *)
CreateStoreSwallowingExists(p) ==
  /\ pc[p] = "create_store"
  /\ Called(p)
  /\ \/ LET r == SmCreateSecret(store, loc[p].secret_name, loc[p].blob)
        IN  /\ store' = r.store
            /\ Return(p, IF r.err \in {"none", "ResourceExists"}
                         THEN "ok" ELSE "StoreError")
     \/ /\ Return(p, "UpstreamUnavailable")
        /\ UNCHANGED store
  /\ UNCHANGED <<idKey, nextEph, started, req, loc, fetches>>

CreateStore(p) ==
  /\ pc[p] = "create_store"
  /\ Called(p)
  /\ \/ LET r == SmCreateSecret(store, loc[p].secret_name, loc[p].blob)
        IN  /\ store' = r.store
            /\ IF r.err = "none" THEN Return(p, "ok")
               ELSE IF r.err = "ResourceExists"
               THEN /\ pc' = [pc EXCEPT ![p] = "create_put"]
                    /\ UNCHANGED result
               ELSE Return(p, "StoreError")
     \/ /\ Return(p, "UpstreamUnavailable")
        /\ UNCHANGED store
  /\ UNCHANGED <<idKey, nextEph, started, req, loc, fetches>>

CreatePut(p) ==
  /\ pc[p] = "create_put"
  /\ Called(p)
  /\ \/ LET r == SmPutSecretValue(store, loc[p].secret_name, loc[p].blob)
        IN  /\ store' = r.store
            /\ Return(p, IF r.err = "none" THEN "ok" ELSE "StoreError")
     \/ /\ Return(p, "UpstreamUnavailable")
        /\ UNCHANGED store
  /\ UNCHANGED <<idKey, nextEph, started, req, loc, fetches>>

(* The check with the wallet id left out of the comparison.                *)
OwnedByPrefix(secret_name, wallet_id) ==
  \E prefix \in Prefixes : secret_name.prefix = prefix

(***************************************************************************)
(* _validate_secret_ownership, update_key, delete_key.                     *)
(***************************************************************************)
Owned(secret_name, wallet_id) ==
  \E prefix \in Prefixes : secret_name = SecretName(prefix, wallet_id)

UpdateKey(p) ==
  \E n \in InputNames, k \in Plains :
    Begin(p, [kind |-> "update", token_type |-> "", secret_name |-> n, key |-> k],
          "validate", "none")

DeleteKey(p) ==
  \E n \in InputNames :
    Begin(p, [kind |-> "delete", token_type |-> "", secret_name |-> n, key |-> ""],
          "validate", "none")

ValidateOwnership(p) ==
  /\ pc[p] = "validate"
  /\ Fetched(p)
  /\ \/ /\ loc' = [loc EXCEPT ![p].wallet_id = WalletIdOf(idKey)]
        /\ IF Owned(req[p].secret_name, WalletIdOf(idKey))
           THEN /\ pc' = [pc EXCEPT ![p] =
                            IF req[p].kind = "update" THEN "update_fetch" ELSE "delete_call"]
                /\ UNCHANGED result
           ELSE Return(p, "OwnershipViolation")
     \/ /\ Return(p, "UpstreamUnavailable")
        /\ UNCHANGED loc
  /\ UNCHANGED <<store, idKey, nextEph, started, req, calls>>

(* The reseal done with the key pair the ownership check fetched: no       *)
(* second call to the identity provider.                                   *)
UpdateFetchReusingIdentity(p) ==
  /\ pc[p] = "update_fetch"
  /\ nextEph' = nextEph + 1
  /\ loc' = [loc EXCEPT
       ![p].blob = EncryptPayload(req[p].key, Ed25519ToX25519(idKey), nextEph + 1)]
  /\ pc' = [pc EXCEPT ![p] = "update_put"]
  /\ UNCHANGED <<store, idKey, started, req, result, fetches, calls>>


UpdateFetch(p) ==
  /\ pc[p] = "update_fetch"
  /\ Fetched(p)
  /\ \/ /\ nextEph' = nextEph + 1
        /\ loc' = [loc EXCEPT
             ![p].blob = EncryptPayload(req[p].key, Ed25519ToX25519(idKey), nextEph + 1)]
        /\ pc' = [pc EXCEPT ![p] = "update_put"]
        /\ UNCHANGED result
     \/ /\ Return(p, "UpstreamUnavailable")
        /\ UNCHANGED <<loc, nextEph>>
  /\ UNCHANGED <<store, idKey, started, req, calls>>

(* The update written through _store_secret: create, and put only when     *)
(* the name exists.                                                        *)
UpdatePutThroughStoreSecret(p) ==
  /\ pc[p] = "update_put"
  /\ Called(p)
  /\ \/ LET c == SmCreateSecret(store, req[p].secret_name, loc[p].blob)
            r == IF c.err = "ResourceExists"
                 THEN SmPutSecretValue(store, req[p].secret_name, loc[p].blob)
                 ELSE c
        IN  /\ store' = r.store
            /\ Return(p, IF r.err = "none" THEN "ok" ELSE "StoreError")
     \/ /\ Return(p, "UpstreamUnavailable")
        /\ UNCHANGED store
  /\ UNCHANGED <<idKey, nextEph, started, req, loc, fetches>>


(* The update done as delete_secret then create_secret: the second call    *)
(* may fail after the first took effect.                                   *)
UpdatePutDeleteThenCreate(p) ==
  /\ pc[p] = "update_put"
  /\ Called(p)
  /\ LET d == SmDeleteSecret(store, req[p].secret_name, TRUE).store
     IN  \/ /\ store' = SmCreateSecret(d, req[p].secret_name, loc[p].blob).store
            /\ Return(p, "ok")
         \/ /\ store' = d
            /\ Return(p, "UpstreamUnavailable")
  /\ UNCHANGED <<idKey, nextEph, started, req, loc, fetches>>


UpdatePut(p) ==
  /\ pc[p] = "update_put"
  /\ Called(p)
  /\ \/ LET r == SmPutSecretValue(store, req[p].secret_name, loc[p].blob)
        IN  /\ store' = r.store
            /\ Return(p, IF r.err = "none" THEN "ok" ELSE "StoreError")
     \/ /\ Return(p, "UpstreamUnavailable")
        /\ UNCHANGED store
  /\ UNCHANGED <<idKey, nextEph, started, req, loc, fetches>>

(* The flag left at its default: the secret is scheduled for deletion.     *)
DefaultRecoveryWindow == FALSE

(* _delete_wallet_secret's flag.                                           *)
ForceDeleteWithoutRecovery == TRUE

DeleteCall(p) ==
  /\ pc[p] = "delete_call"
  /\ Called(p)
  /\ \/ LET r == SmDeleteSecret(store, req[p].secret_name, ForceDeleteWithoutRecovery)
        IN  /\ store' = r.store
            /\ Return(p, IF r.err = "none" THEN "ok" ELSE "StoreError")
     \/ /\ Return(p, "UpstreamUnavailable")
        /\ UNCHANGED store
  /\ UNCHANGED <<idKey, nextEph, started, req, loc, fetches>>

(***************************************************************************)
(* GET /actions, and the rendering that ends the other handlers.           *)
(***************************************************************************)
GetActions(p) ==
  Begin(p, [kind |-> "list", token_type |-> "", secret_name |-> NoName, key |-> ""],
        "list_fetch", "none")

(* _add_key_form_html and _actions_area_html call _list_wallet_secrets     *)
(* again (one more identity fetch, describes only, errors swallowed);     *)
(* _update_key_form_html does not.                                         *)
RenderLists(kind, res) ==
  IF kind = "update" /\ res # "ok" THEN 0 ELSE 1

Respond(p) ==
  /\ pc[p] = "respond"
  /\ pc' = [pc EXCEPT ![p] = "done"]
  /\ fetches' = [fetches EXCEPT ![p] = @ + RenderLists(req[p].kind, result[p])]
  /\ loc' = [loc EXCEPT ![p] = InitLoc]
  /\ UNCHANGED <<store, idKey, nextEph, started, req, result, calls>>

(***************************************************************************)
(* The identity provider may hand out another key pair at any time.        *)
(***************************************************************************)
RotateKey ==
  /\ \E k \in Keys \ {idKey} : idKey' = k
  /\ quiet' = [q \in Procs |-> FALSE]
  /\ UNCHANGED <<store, nextEph, started, pc, req, loc, result, fetches, calls, muts, pre,
                 raced>>

(***************************************************************************)
(* Bookkeeping of a request's step, read off the step itself.              *)
(***************************************************************************)
Target(r, k) ==
  IF r.kind = "add" /\ r.token_type \in DOMAIN TOKEN_TYPES
  THEN SecretName(TOKEN_TYPES[r.token_type], WalletIdOf(k))
  ELSE r.secret_name

(* The request is inside _create_wallet_secret: add_key's existence check  *)
(* (lines 387-388) found no record of the token type.                      *)
PastCheck(p) == pc[p] \in {"create_fetch", "create_store", "create_put"}

(* Two add-key requests for one token type, both past the check, neither   *)
(* having changed the store yet.                                           *)
Racing(p, q) ==
  /\ p # q
  /\ PastCheck(p) /\ PastCheck(q)
  /\ req[p].token_type = req[q].token_type
  /\ muts[p] = 0 /\ muts[q] = 0

Observe(p) ==
  /\ muts' = [muts EXCEPT ![p] =
       IF Starting(p) THEN 0 ELSE IF store' # store THEN @ + 1 ELSE @]
  /\ quiet' = [q \in Procs |->
       IF q = p THEN Starting(p) \/ quiet[p] ELSE quiet[q] /\ store' = store]
  /\ pre' = [pre EXCEPT ![p] =
       IF ~Starting(p) THEN @
       ELSE StateOf(store, Target(req'[p], idKey))]
  /\ raced' = [q \in Procs |->
       IF q = p /\ Starting(p) THEN FALSE
       ELSE raced[q] \/ \E o \in Procs : Racing(q, o)']

Handler(p) ==
  /\ \/ AddKey(p)
     \/ UpdateKey(p)
     \/ DeleteKey(p)
     \/ GetActions(p)
     \/ ListFetch(p)
     \/ ListProbe(p)
     \/ CreateFetch(p)
     \/ CreateStore(p)
     \/ CreatePut(p)
     \/ ValidateOwnership(p)
     \/ UpdateFetch(p)
     \/ UpdatePut(p)
     \/ DeleteCall(p)
     \/ Respond(p)
  /\ Observe(p)

(* Requests served one at a time, the identity provider free to rotate     *)
(* the key pair between any two calls.                                     *)
Next == Handler(1) \/ RotateKey

Spec == Init /\ [][Next]_vars

(* Requests served concurrently under one key pair.                        *)
NextConc == \E p \in Procs : Handler(p)

SpecConc == Init /\ [][NextConc]_vars

(***************************************************************************)
(* Properties.                                                             *)
(***************************************************************************)
Returned(p) == pc[p] \in {"respond", "done"}

(* C1: add-key for a token type whose secret is live for the caller's      *)
(* wallet ends in AlreadyExists (unless the identity provider or the store *)
(* was unreachable), and an add-key that ends in AlreadyExists, or that    *)
(* found the secret live, issued no mutating store call and changed        *)
(* nothing in the store.                                                   *)
C1_AlreadyExistsLeavesStore ==
  \A p \in Procs :
    (Returned(p) /\ req[p].kind = "add") =>
      /\ (result[p] = "AlreadyExists" => calls[p] = 0 /\ muts[p] = 0)
      /\ (pre[p] = "live" /\ quiet[p]) =>
           /\ result[p] \in {"AlreadyExists", "UpstreamUnavailable"}
           /\ calls[p] = 0
           /\ muts[p] = 0
           /\ StateOf(store, Target(req[p], idKey)) = "live"

C1_Witness ==
  \E p \in Procs :
    /\ pc[p] = "done" /\ req[p].kind = "add"
    /\ pre[p] = "live" /\ quiet[p]
    /\ result[p] = "AlreadyExists"
    /\ fetches[p] >= 1

(* C2: update-key and delete-key with a name that is not                   *)
(* "{prefix}-{wallet_id}" for the current wallet and a registered prefix   *)
(* end in OwnershipViolation (unless the identity provider was             *)
(* unreachable); no put or delete call is issued and no entry changes.     *)
C2_OwnershipViolationTouchesNothing ==
  \A p \in Procs :
    (Returned(p) /\ req[p].kind \in {"update", "delete"}) =>
      /\ (result[p] = "OwnershipViolation" => calls[p] = 0 /\ muts[p] = 0)
      /\ (quiet[p] /\ ~(\E x \in Prefixes :
                          req[p].secret_name =
                            [prefix |-> x, wallet |-> WalletIdOf(idKey), rest |-> <<>>])) =>
           /\ result[p] \in {"OwnershipViolation", "UpstreamUnavailable"}
           /\ calls[p] = 0
           /\ muts[p] = 0

C2_Witness ==
  \E p \in Procs :
    /\ pc[p] = "done" /\ req[p].kind \in {"update", "delete"}
    /\ quiet[p]
    /\ req[p].secret_name.prefix \in Prefixes
    /\ req[p].secret_name.wallet # WalletIdOf(idKey)
    /\ req[p].secret_name \in DOMAIN store
    /\ result[p] = "OwnershipViolation"

(* The entries of the store that are records of (wallet_id, token_type):   *)
(* those named "{prefix}-{wallet_id}", whatever follows the id.            *)
RecordsOf(wallet_id, token_type) ==
  {n \in DOMAIN store : n.prefix = TOKEN_TYPES[token_type] /\ n.wallet = wallet_id}

(* C3: in every reachable state, under any interleaving of the requests,   *)
(* the store holds at most one record per (wallet_id, token_type).         *)
C3_AtMostOneRecordPerPair ==
  \A w \in WalletIds, t \in DOMAIN TOKEN_TYPES :
    Cardinality(RecordsOf(w, t)) <= 1

(* Two add-key requests for one token type that both passed the existence  *)
(* check and both wrote.                                                   *)
C3_Witness ==
  \E p, q \in Procs :
    /\ p # q
    /\ pc[p] = "done" /\ pc[q] = "done"
    /\ req[p].kind = "add" /\ req[q].kind = "add"
    /\ req[p].token_type = req[q].token_type
    /\ result[p] = "ok" /\ result[q] = "ok"
    /\ calls[p] = 1 /\ calls[q] = 2
    /\ Cardinality(RecordsOf(WalletIdOf(idKey), req[p].token_type)) = 1

(* C4: an add-key that reports success from a state with no live record    *)
(* for (wallet_id, token_type) - the entry missing or scheduled for        *)
(* deletion - leaves the secret live under "{prefix}-{wallet_id}" holding  *)
(* the submitted value, and a listing run after it returns a record for    *)
(* the token type with the display "{prefix}-{first 3 of wallet_id}...".   *)
C4_CreateMakesPresent ==
  \A p \in Procs :
    (/\ Returned(p) /\ req[p].kind = "add" /\ result[p] = "ok"
     /\ quiet[p] /\ pre[p] \in {"missing", "deleted"}) =>
      LET t == req[p].token_type
          w == WalletIdOf(idKey)
          n == [prefix |-> TOKEN_TYPES[t], wallet |-> w, rest |-> <<>>]
      IN  /\ n \in DOMAIN store
          /\ store[n].st = "live"
          /\ store[n].val.plain = req[p].key
          /\ muts[p] = 1
          /\ \A q \in Procs \ {p} :
               (/\ pc[q] = "done" /\ req[q].kind = "list"
                /\ result[q] = "ok" /\ quiet[q]) =>
                 \E i \in 1..Len(loc[q].found) :
                   /\ loc[q].found[i].token_type = t
                   /\ loc[q].found[i].secret_name = n
                   /\ loc[q].found[i].truncated =
                        [prefix |-> TOKEN_TYPES[t], head |-> <<w[1], w[2], w[3]>>,
                         tail |-> "..."]

C4_Witness ==
  \E p, q \in Procs :
    /\ p # q
    /\ pc[p] = "done" /\ req[p].kind = "add" /\ result[p] = "ok"
    /\ quiet[p] /\ pre[p] = "missing"
    /\ pc[q] = "done" /\ req[q].kind = "list" /\ result[q] = "ok" /\ quiet[q]
    /\ Len(loc[q].found) >= 1

(* A step of request p inside its handler.                                 *)
StepOf(p) == pc[p] \notin {"idle", "done"} /\ pc'[p] # pc[p]

(* C5: update-key changes only the value stored under secret_name: no step *)
(* of an update adds or removes a name, changes a live / scheduled-for-    *)
(* deletion state, or changes another name's entry; an update of an owned  *)
(* name that is missing fails and leaves it missing.                       *)
C5_UpdateChangesOnlyTheValue ==
  /\ [][\A p \in Procs :
          (req[p].kind = "update" /\ StepOf(p)) =>
            /\ DOMAIN store' = DOMAIN store
            /\ \A n \in DOMAIN store :
                 /\ store'[n].st = store[n].st
                 /\ (n # req[p].secret_name => store'[n] = store[n])]_vars
  /\ [](\A p \in Procs :
          (Returned(p) /\ req[p].kind = "update" /\ result[p] = "ok") =>
            /\ pre[p] = "live" \/ ~quiet[p]
            /\ muts[p] = 1)

C5_Witness ==
  \E p \in Procs :
    /\ pc[p] = "done" /\ req[p].kind = "update" /\ result[p] = "ok"
    /\ quiet[p] /\ muts[p] = 1
    /\ store[req[p].secret_name].val.plain = req[p].key
    /\ \E n \in DOMAIN store : n # req[p].secret_name

(* An update of an owned name that is missing: it fails, nothing appears.  *)
C5_AbsentWitness ==
  \E p \in Procs :
    /\ pc[p] = "done" /\ req[p].kind = "update"
    /\ quiet[p] /\ pre[p] = "missing" /\ calls[p] = 1
    /\ result[p] = "StoreError"
    /\ req[p].secret_name \notin DOMAIN store

(* C6: a delete-key that passed the ownership check and succeeded leaves   *)
(* no entry under the name (removed outright, never scheduled for          *)
(* deletion); no step of a delete changes another entry; a listing does    *)
(* not return a name the store does not hold; and a name that is missing   *)
(* gets an entry again only by a step of an add-key.                       *)
C6_DeleteIsFinal ==
  /\ [](\A p \in Procs :
          /\ (Returned(p) /\ req[p].kind = "delete" /\ result[p] = "ok" /\ quiet[p]) =>
               /\ req[p].secret_name \notin DOMAIN store
               /\ calls[p] = 1
          /\ (pc[p] = "done" /\ req[p].kind = "list" /\ result[p] = "ok" /\ quiet[p]) =>
               \A i \in 1..Len(loc[p].found) :
                 StateOf(store, loc[p].found[i].secret_name) = "live")
  /\ [][\A p \in Procs :
          (req[p].kind = "delete" /\ StepOf(p)) =>
            /\ DOMAIN store' \subseteq DOMAIN store
            /\ DOMAIN store \ DOMAIN store' \subseteq {req[p].secret_name}
            /\ \A n \in DOMAIN store' : store'[n] = store[n]]_vars
  /\ [][\A n \in DOMAIN store' :
          /\ (n \notin DOMAIN store =>
                \E p \in Procs : req[p].kind = "add" /\ StepOf(p))
          /\ (store'[n].st = "deleted" =>
                n \in DOMAIN store /\ store[n].st = "deleted")]_vars

C6_Witness ==
  \E p \in Procs :
    /\ pc[p] = "done" /\ req[p].kind = "delete" /\ result[p] = "ok"
    /\ quiet[p] /\ pre[p] = "live" /\ muts[p] = 1
    /\ req[p].secret_name \notin DOMAIN store
    /\ DOMAIN store # {}

(* The registered token types whose entry for wallet w is in the store     *)
(* without a deletion mark.                                                *)
LiveTypes(w) ==
  {t \in DOMAIN TOKEN_TYPES :
     LET n == [prefix |-> TOKEN_TYPES[t], wallet |-> w, rest |-> <<>>]
     IN  n \in DOMAIN store /\ store[n].st = "live"}

(* C7: a listing returns exactly one record for each registered token type *)
(* whose entry "{prefix}-{wallet_id}" is in the store without a deletion   *)
(* mark, none for the others, each with its name, prefix and display; and  *)
(* it issues no mutating call and changes nothing in the store.            *)
C7_ListReturnsLiveRecords ==
  \A p \in Procs :
    (req[p].kind = "list" /\ pc[p] # "idle") =>
      /\ calls[p] = 0
      /\ muts[p] = 0
      /\ (pc[p] = "done" /\ result[p] = "ok" /\ quiet[p]) =>
           LET found == loc[p].found
               w == WalletIdOf(idKey)
           IN  /\ {found[i].token_type : i \in 1..Len(found)} = LiveTypes(w)
               /\ Len(found) = Cardinality(LiveTypes(w))
               /\ \A i \in 1..Len(found) :
                    found[i] =
                      [secret_name |-> [prefix |-> TOKEN_TYPES[found[i].token_type],
                                        wallet |-> w, rest |-> <<>>],
                       prefix |-> TOKEN_TYPES[found[i].token_type],
                       truncated |-> [prefix |-> TOKEN_TYPES[found[i].token_type],
                                      head |-> <<w[1], w[2], w[3]>>, tail |-> "..."],
                       token_type |-> found[i].token_type]

(* A listing that returned a live record and passed over an entry          *)
(* scheduled for deletion.                                                 *)
C7_Witness ==
  \E p \in Procs :
    /\ pc[p] = "done" /\ req[p].kind = "list" /\ result[p] = "ok" /\ quiet[p]
    /\ Len(loc[p].found) = 1
    /\ \E n \in DOMAIN store :
         n.wallet = WalletIdOf(idKey) /\ n.prefix \in Prefixes /\ store[n].st = "deleted"

C9_UnknownTokenTypeRejected ==
  /\ Cardinality(DOMAIN TOKEN_TYPES) = 4
  /\ \A p \in Procs :
       (req[p].kind = "add" /\ req[p].token_type \notin DOMAIN TOKEN_TYPES) =>
         /\ Returned(p)
         /\ result[p] = "UnknownTokenType"
         /\ calls[p] = 0
         /\ muts[p] = 0
         /\ (pc[p] = "respond" => fetches[p] = 0)

C9_Witness ==
  \E p \in Procs :
    /\ pc[p] = "done" /\ req[p].kind = "add"
    /\ req[p].token_type = UnknownType
    /\ result[p] = "UnknownTokenType"
    /\ DOMAIN store # {}

(* C10 as stated: a successful add-key, update-key or delete-key has       *)
(* called the identity provider exactly once and sent the store exactly    *)
(* one mutating call when its outcome is fixed.                            *)
C10_OneFetchOneCall ==
  \A p \in Procs :
    (pc[p] = "respond" /\ req[p].kind \in {"add", "update", "delete"}
       /\ result[p] = "ok") =>
      fetches[p] = 1 /\ calls[p] = 1

(* C10, amended: when its outcome is fixed, a successful add-key or        *)
(* update-key has called the identity provider twice (existence or         *)
(* ownership check, then sealing) and a successful delete-key once;        *)
(* update and delete have sent the store one mutating call, add one, or    *)
(* two when create_secret was rejected as existing and put_secret_value    *)
(* followed; the store changed in at most one of them. Rendering the       *)
(* response lists again: one more identity call.                           *)
C10_FetchesAndCalls ==
  \A p \in Procs :
    (Returned(p) /\ req[p].kind \in {"add", "update", "delete"}
       /\ result[p] = "ok") =>
      LET core == IF pc[p] = "done" THEN fetches[p] - 1 ELSE fetches[p]
      IN  /\ core = IF req[p].kind = "delete" THEN 1 ELSE 2
          /\ calls[p] \in (IF req[p].kind = "add" THEN {1, 2} ELSE {1})
          /\ muts[p] <= 1
          /\ (calls[p] = 2 => muts[p] = 1)

C10_Witness ==
  \E p \in Procs :
    /\ pc[p] = "respond" /\ req[p].kind = "update" /\ result[p] = "ok"
    /\ fetches[p] = 2 /\ calls[p] = 1 /\ muts[p] = 1

(* An add-key whose create_secret was rejected and whose put succeeded.    *)
C10_TwoCallsWitness ==
  \E p \in Procs :
    /\ pc[p] = "respond" /\ req[p].kind = "add" /\ result[p] = "ok"
    /\ fetches[p] = 2 /\ calls[p] = 2

(* The two requests raced each other and both have returned.               *)
RaceOver(p, q) ==
  /\ p # q
  /\ raced[p] /\ raced[q]
  /\ Returned(p) /\ Returned(q)

(* C11: two add-key requests for one wallet and one token type that were   *)
(* both past the existence check before either wrote: neither ends in      *)
(* AlreadyExists; unless a call of one was failed by the identity provider *)
(* or the store, both report success, each after one write that the store  *)
(* applied (three mutating calls between them: the later create_secret is  *)
(* answered ResourceExists and followed by put_secret_value), and the      *)
(* store holds one live entry under "{prefix}-{wallet_id}"; from a name    *)
(* with no entry the store rejects neither; and the later of the two       *)
(* writes adds no name and leaves the entry holding the value that request *)
(* sealed from its own submitted token.                                    *)
C11_RacingCreatesBothSucceed ==
  /\ [](\A p, q \in Procs :
          RaceOver(p, q) =>
            LET t == req[p].token_type
                n == SecretName(TOKEN_TYPES[t], WalletIdOf(idKey))
            IN  /\ result[p] # "AlreadyExists"
                /\ (pre[p] = "missing" /\ pre[q] = "missing") =>
                     (result[p] # "StoreError" /\ result[q] # "StoreError")
                /\ ({result[p], result[q]}
                      \cap {"UpstreamUnavailable", "StoreError"} = {}) =>
                     /\ result[p] = "ok" /\ result[q] = "ok"
                     /\ muts[p] = 1 /\ muts[q] = 1
                     /\ calls[p] + calls[q] = 3
                     /\ RecordsOf(WalletIdOf(idKey), t) = {n}
                     /\ store[n].st = "live")
  /\ [][\A p, q \in Procs :
          (/\ p # q /\ raced[p] /\ raced[q]
           /\ muts[q] = 1 /\ muts[p] = 0
           /\ StepOf(p) /\ store' # store) =>
            /\ DOMAIN store' = DOMAIN store
            /\ loc[p].secret_name \in DOMAIN store
            /\ store'[loc[p].secret_name].val = loc[p].blob
            /\ store'[loc[p].secret_name].val # store[loc[p].secret_name].val
            /\ loc[p].blob.plain = req[p].key
            /\ result'[p] = "ok"]_vars

(* Both raced, both reported success, the first through create_secret and  *)
(* the second through the put_secret_value fallback.                       *)
C11_Witness ==
  \E p, q \in Procs :
    /\ RaceOver(p, q)
    /\ pc[p] = "done" /\ pc[q] = "done"
    /\ result[p] = "ok" /\ result[q] = "ok"
    /\ calls[p] = 1 /\ calls[q] = 2
    /\ pre[p] = "missing" /\ pre[q] = "missing"
    /\ Cardinality(RecordsOf(WalletIdOf(idKey), req[p].token_type)) = 1

(* A race over a name scheduled for deletion: the store rejects both.      *)
C11_DeletedWitness ==
  \E p, q \in Procs :
    /\ RaceOver(p, q)
    /\ pre[p] = "deleted" /\ pre[q] = "deleted"
    /\ result[p] = "StoreError" /\ result[q] = "StoreError"

(* The entry under n holds a value sealed to the X25519 key converted from *)
(* the key pair whose public key gives n's wallet id.                      *)
SealedToOwner(s, n) ==
  \E k \in Keys :
    /\ WalletIdOf(k) = n.wallet
    /\ s[n].val.to = Ed25519ToX25519(k)

(* C12: in every reachable state, every value stored under a name          *)
(* "{prefix}-{W}" is sealed to the X25519 public key converted from the    *)
(* SSH identity whose public key produced the wallet id W, also when the   *)
(* identity provider hands out another key pair between two operations or  *)
(* between the two identity fetches of one operation.                      *)
C12_SealedToWalletIdentity ==
  \A n \in DOMAIN store : n.prefix \in Prefixes => SealedToOwner(store, n)

(* What holds of the writes of add-key: the name and the sealing key come  *)
(* from one fetch, so each value it stores is sealed to its name's wallet. *)
C12_CreateSealsToWalletIdentity ==
  [][\A p \in Procs :
       (req[p].kind = "add" /\ StepOf(p) /\ store' # store) =>
         /\ loc[p].secret_name \in DOMAIN store'
         /\ SealedToOwner(store', loc[p].secret_name)
         /\ \A n \in DOMAIN store \ {loc[p].secret_name} :
              n \in DOMAIN store' /\ store'[n] = store[n]]_vars

(* An update that reported success after the key pair changed between its  *)
(* ownership check and its reseal.                                         *)
C12_MissealedUpdate ==
  \E p \in Procs :
    /\ pc[p] = "done" /\ req[p].kind = "update" /\ result[p] = "ok"
    /\ muts[p] = 1
    /\ req[p].secret_name \in DOMAIN store
    /\ ~SealedToOwner(store, req[p].secret_name)

====
